---------------------------- MODULE Spec2Model ----------------------------
(***************************************************************************)
(* The scripts of the repository as state machines.                        *)
(*                                                                         *)
(*   Spec        src/shift_ics.py: the script run top to bottom, one       *)
(*               action per statement that computes something.             *)
(*   SpecDelete  src/notebooks/delete_today_events.py:                     *)
(*               delete_todays_study_plan_events.                          *)
(*   SpecHours   src/todays_studying.py:                                   *)
(*               get_studying_hours_completed_today.                       *)
(*                                                                         *)
(* A text is a sequence of one-character strings.  A datetime is a record  *)
(* of its six fields, a timedelta the normalised pair (days, seconds) that *)
(* CPython keeps (0 <= seconds < 86400).  An unset name is <<>>, a set one *)
(* the one-element sequence of its value.                                  *)
(***************************************************************************)
EXTENDS Integers, Sequences, FiniteSets, TLC

VARIABLES
    \* src/shift_ics.py
    pc, original_content, target_date_str, week_type, date_strings, dates,
    earliest_date, target_date, target_dt, delta, shifted_content, out_file,
    raised,
    \* src/notebooks/delete_today_events.py
    d_pc, d_events, d_idx, d_attempted, d_log, d_raised,
    \* src/todays_studying.py
    h_pc, h_events, h_idx, h_now, h_total, h_seen, h_raised

shiftVars == <<pc, original_content, target_date_str, week_type, date_strings,
               dates, earliest_date, target_date, target_dt, delta,
               shifted_content, out_file, raised>>
deleteVars == <<d_pc, d_events, d_idx, d_attempted, d_log, d_raised>>
hoursVars == <<h_pc, h_events, h_idx, h_now, h_total, h_seen, h_raised>>
vars == <<shiftVars, deleteVars, hoursVars>>

----------------------------------------------------------------------------
(* Bounds of the model.                                                    *)

\* A document is the concatenation of at most MaxPieces pieces.
MaxPieces == 3
\* events().list returns at most MaxDeleteEvents events to the deletion.
MaxDeleteEvents == 4
\* events().list returns at most MaxStudyEvents events to the hours count.
MaxStudyEvents == 2
\* Event times and clock readings are 0 .. MaxTime half hours after midnight.
MaxTime == 2

----------------------------------------------------------------------------
(* Characters and digit strings.                                           *)

DigitChars == <<"0", "1", "2", "3", "4", "5", "6", "7", "8", "9">>

\* \d of the pattern, on the characters the documents are made of.
IsDigit(c) == \E k \in 1..10 : DigitChars[k] = c

DigitVal(c) == (CHOOSE k \in 1..10 : DigitChars[k] = c) - 1

\* int() of the digit string s[from..to].
RECURSIVE ToInt(_, _, _)
ToInt(s, from, to) ==
    IF to < from THEN 0
    ELSE 10 * ToInt(s, from, to - 1) + DigitVal(s[to])

\* The decimal digits of n >= 0, as few as it takes.
RECURSIVE Decimal(_)
Decimal(n) ==
    IF n < 10 THEN <<DigitChars[n + 1]>>
    ELSE Decimal(n \div 10) \o <<DigitChars[(n % 10) + 1]>>

\* The digits of n, zero-filled on the left to at least width w.
RECURSIVE ZeroPad(_, _)
ZeroPad(s, w) == IF Len(s) >= w THEN s ELSE ZeroPad(<<"0">> \o s, w)

----------------------------------------------------------------------------
(* The proleptic Gregorian calendar of datetime.                           *)

IsLeap(y) == (y % 4 = 0) /\ ((y % 100 # 0) \/ (y % 400 = 0))

DaysInMonthTable == <<31, 28, 31, 30, 31, 30, 31, 31, 30, 31, 30, 31>>

DaysInMonth(y, m) ==
    IF m = 2 /\ IsLeap(y) THEN 29 ELSE DaysInMonthTable[m]

DaysBeforeYear(y) ==
    (y - 1) * 365 + ((y - 1) \div 4) - ((y - 1) \div 100) + ((y - 1) \div 400)

RECURSIVE DaysBeforeMonth(_, _)
DaysBeforeMonth(y, m) ==
    IF m <= 1 THEN 0 ELSE DaysBeforeMonth(y, m - 1) + DaysInMonth(y, m - 1)

\* date.toordinal(): 1 is 0001-01-01.
ToOrdinal(dt) ==
    DaysBeforeYear(dt.year) + DaysBeforeMonth(dt.year, dt.month) + dt.day

\* date.max.toordinal(), the ordinal of 9999-12-31.
MaxOrdinal == DaysBeforeYear(10000)

\* The month of day n0 (0-based) of year y, searched upward from January.
RECURSIVE MonthOfYearDay(_, _, _)
MonthOfYearDay(y, n0, m) ==
    IF n0 < DaysBeforeMonth(y, m) + DaysInMonth(y, m) THEN m
    ELSE MonthOfYearDay(y, n0, m + 1)

\* date.fromordinal(n), 1 <= n <= MaxOrdinal: the 400/100/4/1-year cycles.
FromOrdinal(n) ==
    LET n0   == n - 1
        n400 == n0 \div 146097
        r400 == n0 % 146097
        n100 == r400 \div 36524
        r100 == r400 % 36524
        n4   == r100 \div 1461
        r4   == r100 % 1461
        n1   == r4 \div 365
        r1   == r4 % 365
        y    == n400 * 400 + n100 * 100 + n4 * 4 + n1 + 1
    IN  IF n1 = 4 \/ n100 = 4
        THEN [year |-> y - 1, month |-> 12, day |-> 31]
        ELSE LET m == MonthOfYearDay(y, r1, 1)
             IN  [year |-> y, month |-> m,
                  day |-> r1 - DaysBeforeMonth(y, m) + 1]

----------------------------------------------------------------------------
(* datetime and timedelta.                                                 *)

DateTime(y, mo, d, h, mi, s) ==
    [year |-> y, month |-> mo, day |-> d, hour |-> h, minute |-> mi,
     second |-> s]

SecondsOfDay(dt) == dt.hour * 3600 + dt.minute * 60 + dt.second

\* timedelta(days, seconds), normalised as the constructor does.
TimeDelta(days, seconds) ==
    [days |-> days + (seconds \div 86400), seconds |-> seconds % 86400]

\* a - b of two datetimes.
DtSub(a, b) ==
    TimeDelta(ToOrdinal(a) - ToOrdinal(b), SecondsOfDay(a) - SecondsOfDay(b))

\* dt + td: [ok |-> FALSE] is OverflowError (date value out of range).
DtAdd(dt, td) ==
    LET sum == TimeDelta(ToOrdinal(dt) + td.days, SecondsOfDay(dt) + td.seconds)
    IN  IF 0 < sum.days /\ sum.days <= MaxOrdinal
        THEN LET ymd == FromOrdinal(sum.days)
             IN  [ok |-> TRUE,
                  dt |-> DateTime(ymd.year, ymd.month, ymd.day,
                                  sum.seconds \div 3600,
                                  (sum.seconds % 3600) \div 60,
                                  sum.seconds % 60)]
        ELSE [ok |-> FALSE, dt |-> dt]

\* a < b of two datetimes: by field, most significant first.
DtLess(a, b) ==
    LET ka == <<a.year, a.month, a.day, a.hour, a.minute, a.second>>
        kb == <<b.year, b.month, b.day, b.hour, b.minute, b.second>>
    IN  \E k \in 1..6 : ka[k] < kb[k] /\ \A j \in 1..(k - 1) : ka[j] = kb[j]

----------------------------------------------------------------------------
(* The pattern, strptime and strftime.                                     *)

\* Whether r"\d{8}T\d{6}" matches text at position i.
MatchAt(text, i) ==
    /\ i + 14 <= Len(text)
    /\ \A k \in 0..7 : IsDigit(text[i + k])
    /\ text[i + 8] = "T"
    /\ \A k \in 9..14 : IsDigit(text[i + k])

\* re.findall(pattern, text): the non-overlapping matches, leftmost first.
RECURSIVE FindAllFrom(_, _)
FindAllFrom(text, i) ==
    IF i > Len(text) THEN <<>>
    ELSE IF MatchAt(text, i)
         THEN <<SubSeq(text, i, i + 14)>> \o FindAllFrom(text, i + 15)
         ELSE FindAllFrom(text, i + 1)

FindAll(text) == FindAllFrom(text, 1)

\* ValidFields with every month taken to have 31 days.
ValidFieldsDay31(y, mo, d, h, mi, s) ==
    /\ 1 <= y /\ y <= 9999
    /\ 1 <= mo /\ mo <= 12
    /\ 1 <= d /\ d <= 31
    /\ h <= 23 /\ mi <= 59 /\ s <= 59

\* The fields a datetime accepts (ValueError otherwise).
ValidFields(y, mo, d, h, mi, s) ==
    /\ 1 <= y /\ y <= 9999
    /\ 1 <= mo /\ mo <= 12
    /\ 1 <= d /\ d <= DaysInMonth(y, mo)
    /\ h <= 23 /\ mi <= 59 /\ s <= 59

\* datetime.strptime(ds, "%Y%m%dT%H%M%S") of a string the pattern matched:
\* [ok |-> FALSE] is ValueError.
Strptime(ds) ==
    LET y  == ToInt(ds, 1, 4)
        mo == ToInt(ds, 5, 6)
        d  == ToInt(ds, 7, 8)
        h  == ToInt(ds, 10, 11)
        mi == ToInt(ds, 12, 13)
        s  == ToInt(ds, 14, 15)
    IN  [ok |-> ValidFields(y, mo, d, h, mi, s),
         dt |-> DateTime(y, mo, d, h, mi, s)]

\* datetime.strptime(s, "%Y%m%d"): the time of day is 00:00:00.
StrptimeDate(s) ==
    DateTime(ToInt(s, 1, 4), ToInt(s, 5, 6), ToInt(s, 7, 8), 0, 0, 0)

\* Strftime with day and month exchanged ("%Y%d%mT%H%M%S").
StrftimeDayFirst(dt) ==
    ZeroPad(Decimal(dt.year), 4) \o ZeroPad(Decimal(dt.day), 2)
        \o ZeroPad(Decimal(dt.month), 2) \o <<"T">>
        \o ZeroPad(Decimal(dt.hour), 2) \o ZeroPad(Decimal(dt.minute), 2)
        \o ZeroPad(Decimal(dt.second), 2)

\* Strftime without the zero fill of month and day.
StrftimeUnpadded(dt) ==
    ZeroPad(Decimal(dt.year), 4) \o Decimal(dt.month) \o Decimal(dt.day)
        \o <<"T">>
        \o ZeroPad(Decimal(dt.hour), 2) \o ZeroPad(Decimal(dt.minute), 2)
        \o ZeroPad(Decimal(dt.second), 2)

\* dt.strftime("%Y%m%dT%H%M%S").  The years written here are never below the
\* target date's, four digits wide; the width of %Y for a year below 1000
\* depends on the C library and is not reached.
Strftime(dt) ==
    ZeroPad(Decimal(dt.year), 4) \o ZeroPad(Decimal(dt.month), 2)
        \o ZeroPad(Decimal(dt.day), 2) \o <<"T">>
        \o ZeroPad(Decimal(dt.hour), 2) \o ZeroPad(Decimal(dt.minute), 2)
        \o ZeroPad(Decimal(dt.second), 2)


----------------------------------------------------------------------------
(* src/shift_ics.py, statement by statement.                               *)

\* str.upper() on the week types the script is run with.
Upper(s) == IF s = "a" THEN "A" ELSE IF s = "b" THEN "B" ELSE s

\* WeekOffsetDays without the upper(): "b" is not week B.
WeekOffsetDaysCaseSensitive(wt) == IF wt = "B" THEN 7 ELSE 0

\* The days added to target_date: 7 for week B, none otherwise.
WeekOffsetDays(wt) == IF Upper(wt) = "B" THEN 7 ELSE 0

\* Min taking the first datetime of the list for the earliest.
MinFirst(ds) == ds[1]

\* min(ds) of a non-empty list of datetimes.
Min(ds) ==
    ds[CHOOSE i \in 1..Len(ds) : \A j \in 1..Len(ds) : ~DtLess(ds[j], ds[i])]

\* Combine keeping the target's own time of day, midnight.
CombineMidnight(d, t) ==
    DateTime(d.year, d.month, d.day, d.hour, d.minute, d.second)

\* datetime.combine(d.date(), t.time())
Combine(d, t) == DateTime(d.year, d.month, d.day, t.hour, t.minute, t.second)

\* target_date after the week adjustment.
TargetDateOf(s, wt) ==
    IF WeekOffsetDays(wt) = 0 THEN StrptimeDate(s)
    ELSE DtAdd(StrptimeDate(s), TimeDelta(WeekOffsetDays(wt), 0)).dt

\* ShiftDate writing the shifted date at midnight (the time of day lost).
ShiftDateDropsTime(ds, td) ==
    LET p == Strptime(ds)
        n == DtAdd(p.dt, td)
    IN  IF p.ok /\ n.ok
        THEN [ok |-> TRUE,
              text |-> Strftime(DateTime(n.dt.year, n.dt.month, n.dt.day,
                                         0, 0, 0))]
        ELSE [ok |-> FALSE, text |-> ds]

\* shift_date(match) under the delta td: [ok |-> FALSE] when strptime or
\* the addition raises.
ShiftDate(ds, td) ==
    LET p == Strptime(ds)
        n == DtAdd(p.dt, td)
    IN  IF p.ok /\ n.ok THEN [ok |-> TRUE, text |-> Strftime(n.dt)]
        ELSE [ok |-> FALSE, text |-> ds]

\* re.sub(pattern, shift_date, text) from position i on.
RECURSIVE SubFrom(_, _, _)
SubFrom(text, i, td) ==
    IF i > Len(text) THEN [ok |-> TRUE, text |-> <<>>]
    ELSE IF MatchAt(text, i)
         THEN LET r    == ShiftDate(SubSeq(text, i, i + 14), td)
                  rest == SubFrom(text, i + 15, td)
              IN  [ok |-> r.ok /\ rest.ok, text |-> r.text \o rest.text]
         ELSE LET rest == SubFrom(text, i + 1, td)
              IN  [ok |-> rest.ok, text |-> <<text[i]>> \o rest.text]

Sub(text, td) == SubFrom(text, 1, td)

\* A timestamp token with the given field digits, valid or not.
Token(y, mo, d, h, mi, s) ==
    ZeroPad(Decimal(y), 4) \o ZeroPad(Decimal(mo), 2) \o ZeroPad(Decimal(d), 2)
        \o <<"T">> \o ZeroPad(Decimal(h), 2) \o ZeroPad(Decimal(mi), 2)
        \o ZeroPad(Decimal(s), 2)

FirstLesson == Token(2024, 1, 1, 9, 0, 0)
SecondLesson == Token(2024, 1, 2, 10, 0, 0)
LeapDayLesson == Token(2024, 2, 29, 23, 30, 59)
April31 == Token(2024, 4, 31, 12, 0, 0)
February29 == Token(2023, 2, 29, 9, 0, 0)
Hour24 == Token(2024, 1, 3, 24, 0, 0)
LastYear == Token(9999, 12, 30, 8, 0, 0)

\* What timetable.ics is made of: tokens, a separator and a lone digit.
Pieces ==
    {FirstLesson, SecondLesson, LeapDayLesson, April31, February29, Hour24,
     LastYear, <<"x">>, <<"7">>}

RECURSIVE Concat(_, _)
Concat(ps, k) == IF k > Len(ps) THEN <<>> ELSE ps[k] \o Concat(ps, k + 1)

Documents ==
    {Concat(ps, 1) : ps \in UNION {[1..n -> Pieces] : n \in 0..MaxPieces}}

\* target_date_str: the script's own date, and one before the timetable.
TargetDateStrs ==
    {<<"2", "0", "2", "5", "0", "3", "1", "0">>,
     <<"2", "0", "2", "3", "1", "2", "2", "5">>}

WeekTypes == {"A", "B", "b"}

ShiftInit ==
    /\ pc = "findall"
    /\ original_content \in Documents
    /\ target_date_str \in TargetDateStrs
    /\ week_type \in WeekTypes
    /\ date_strings = <<>>
    /\ dates = <<>>
    /\ earliest_date = <<>>
    /\ target_date = <<>>
    /\ target_dt = <<>>
    /\ delta = <<>>
    /\ shifted_content = <<>>
    /\ out_file = <<>>
    /\ raised = <<>>

ShiftIdle ==
    /\ pc = "idle"
    /\ original_content = <<>>
    /\ target_date_str = <<>>
    /\ week_type = "A"
    /\ date_strings = <<>>
    /\ dates = <<>>
    /\ earliest_date = <<>>
    /\ target_date = <<>>
    /\ target_dt = <<>>
    /\ delta = <<>>
    /\ shifted_content = <<>>
    /\ out_file = <<>>
    /\ raised = <<>>

\* date_strings = re.findall(pattern, original_content)
FindDateStrings ==
    /\ pc = "findall"
    /\ date_strings' = FindAll(original_content)
    /\ pc' = "strptime"
    /\ UNCHANGED <<original_content, target_date_str, week_type, dates,
                   earliest_date, target_date, target_dt, delta,
                   shifted_content, out_file, raised>>
    /\ UNCHANGED <<deleteVars, hoursVars>>

\* dates = [datetime.strptime(ds, ...) for ds in date_strings]
ParseDates ==
    /\ pc = "strptime"
    /\ IF \A i \in 1..Len(date_strings) : Strptime(date_strings[i]).ok
       THEN /\ dates' = [i \in 1..Len(date_strings) |->
                            Strptime(date_strings[i]).dt]
            /\ pc' = "min"
            /\ UNCHANGED raised
       ELSE /\ raised' = <<"ValueError", "strptime">>
            /\ pc' = "raised"
            /\ UNCHANGED dates
    /\ UNCHANGED <<original_content, target_date_str, week_type, date_strings,
                   earliest_date, target_date, target_dt, delta,
                   shifted_content, out_file>>
    /\ UNCHANGED <<deleteVars, hoursVars>>

\* EarliestDate with min(dates, default=datetime.min): no failure on the
\* empty list.
EarliestDateDefault ==
    /\ pc = "min"
    /\ earliest_date' =
          <<IF dates # <<>> THEN Min(dates) ELSE DateTime(1, 1, 1, 0, 0, 0)>>
    /\ pc' = "target"
    /\ UNCHANGED <<original_content, target_date_str, week_type, date_strings,
                   dates, target_date, target_dt, delta, shifted_content,
                   out_file, raised>>
    /\ UNCHANGED <<deleteVars, hoursVars>>

\* earliest_date = min(dates)
EarliestDate ==
    /\ pc = "min"
    /\ IF dates # <<>>
       THEN /\ earliest_date' = <<Min(dates)>>
            /\ pc' = "target"
            /\ UNCHANGED raised
       ELSE /\ raised' = <<"ValueError", "min">>
            /\ pc' = "raised"
            /\ UNCHANGED earliest_date
    /\ UNCHANGED <<original_content, target_date_str, week_type, date_strings,
                   dates, target_date, target_dt, delta, shifted_content,
                   out_file>>
    /\ UNCHANGED <<deleteVars, hoursVars>>

\* target_date = strptime(target_date_str), plus 7 days for week B
TargetDate ==
    /\ pc = "target"
    /\ target_date' = <<TargetDateOf(target_date_str, week_type)>>
    /\ pc' = "combine"
    /\ UNCHANGED <<original_content, target_date_str, week_type, date_strings,
                   dates, earliest_date, target_dt, delta, shifted_content,
                   out_file, raised>>
    /\ UNCHANGED <<deleteVars, hoursVars>>

\* target_dt = datetime.combine(target_date.date(), earliest_date.time())
TargetDt ==
    /\ pc = "combine"
    /\ target_dt' = <<Combine(target_date[1], earliest_date[1])>>
    /\ pc' = "delta"
    /\ UNCHANGED <<original_content, target_date_str, week_type, date_strings,
                   dates, earliest_date, target_date, delta, shifted_content,
                   out_file, raised>>
    /\ UNCHANGED <<deleteVars, hoursVars>>

\* delta = target_dt - earliest_date
Delta ==
    /\ pc = "delta"
    /\ delta' = <<DtSub(target_dt[1], earliest_date[1])>>
    /\ pc' = "sub"
    /\ UNCHANGED <<original_content, target_date_str, week_type, date_strings,
                   dates, earliest_date, target_date, target_dt,
                   shifted_content, out_file, raised>>
    /\ UNCHANGED <<deleteVars, hoursVars>>

\* shifted_content = re.sub(pattern, shift_date, original_content)
ShiftContent ==
    /\ pc = "sub"
    /\ LET r == Sub(original_content, delta[1])
       IN  IF r.ok
           THEN /\ shifted_content' = <<r.text>>
                /\ pc' = "write"
                /\ UNCHANGED raised
           ELSE /\ raised' = <<"OverflowError", "shift_date">>
                /\ pc' = "raised"
                /\ UNCHANGED shifted_content
    /\ UNCHANGED <<original_content, target_date_str, week_type, date_strings,
                   dates, earliest_date, target_date, target_dt, delta,
                   out_file>>
    /\ UNCHANGED <<deleteVars, hoursVars>>

\* with open('Shifted_Timetable.ics', 'w') as f: f.write(shifted_content)
WriteFile ==
    /\ pc = "write"
    /\ out_file' = shifted_content
    /\ pc' = "done"
    /\ UNCHANGED <<original_content, target_date_str, week_type, date_strings,
                   dates, earliest_date, target_date, target_dt, delta,
                   shifted_content, raised>>
    /\ UNCHANGED <<deleteVars, hoursVars>>


----------------------------------------------------------------------------
(* src/notebooks/delete_today_events.py: delete_todays_study_plan_events.  *)

\* An event of the listing: its id, and whether it carries the optional
\* 'summary' key.
EventIds == 1..MaxDeleteEvents

EventLists ==
    UNION {[1..n -> [id : EventIds, has_summary : BOOLEAN]] :
              n \in 0..MaxDeleteEvents}

\* The listings the service returns: every event once.
Listings ==
    {es \in EventLists : \A i \in 1..Len(es) : es[i].id = i}

DeleteInit ==
    /\ d_pc = "list"
    /\ d_events = <<>>
    /\ d_idx = 1
    /\ d_attempted = <<>>
    /\ d_log = <<>>
    /\ d_raised = <<>>

DeleteIdle ==
    /\ d_pc = "idle"
    /\ d_events = <<>>
    /\ d_idx = 1
    /\ d_attempted = <<>>
    /\ d_log = <<>>
    /\ d_raised = <<>>

\* events_result = service.events().list(...).execute(), in its try
ListEvents ==
    /\ d_pc = "list"
    /\ \/ /\ d_log' = Append(d_log, <<"An error occurred", 0>>)
          /\ d_pc' = "returned"
          /\ UNCHANGED d_events
       \/ /\ d_events' \in Listings
          /\ d_pc' = "check"
          /\ UNCHANGED d_log
    /\ UNCHANGED <<d_idx, d_attempted, d_raised>>
    /\ UNCHANGED <<shiftVars, hoursVars>>

\* if not events: print(...); return
CheckEvents ==
    /\ d_pc = "check"
    /\ IF d_events = <<>>
       THEN /\ d_log' = Append(d_log, <<"No events found for today.", 0>>)
            /\ d_pc' = "returned"
       ELSE /\ d_pc' = "loop"
            /\ UNCHANGED d_log
    /\ UNCHANGED <<d_events, d_idx, d_attempted, d_raised>>
    /\ UNCHANGED <<shiftVars, hoursVars>>

\* Where the loop stands after the body ran to its end for event d_idx.
AfterEvent == IF d_idx = Len(d_events) THEN "returned" ELSE "loop"

\* One pass of the loop body: the delete, which succeeds or raises
\* HttpError, then the print of the try or of the handler.  Both prints read
\* event['summary']: KeyError, which no handler catches, without the key.
DeleteEvent ==
    /\ d_pc = "loop"
    /\ d_idx <= Len(d_events)
    /\ d_attempted' = Append(d_attempted, d_events[d_idx].id)
    /\ \E outcome \in {"Deleted event", "An error occurred while deleting event"} :
          IF d_events[d_idx].has_summary
          THEN /\ d_log' = Append(d_log, <<outcome, d_events[d_idx].id>>)
               /\ d_idx' = d_idx + 1
               /\ d_pc' = AfterEvent
               /\ UNCHANGED d_raised
          ELSE /\ d_raised' = <<"KeyError", outcome>>
               /\ d_pc' = "raised"
               /\ UNCHANGED <<d_log, d_idx>>
    /\ UNCHANGED d_events
    /\ UNCHANGED <<shiftVars, hoursVars>>


----------------------------------------------------------------------------
(* src/todays_studying.py: get_studying_hours_completed_today.             *)
(* Times are half hours since today_start; h_total is total_hours in half  *)
(* hours (every duration here is a whole number of them, exact in a        *)
(* float).                                                                 *)

Times == 0..MaxTime

\* A timed event carries start and end under 'dateTime' (timezone-aware), an
\* all-day event under 'date' (timezone-naive once parsed).
StudyEvents ==
    {e \in [start : Times, end : Times, key : {"dateTime", "date"}] :
        /\ e.start <= e.end
        /\ e.key = "date" => (e.start = 0 /\ e.end = MaxTime)}

\* The listings of orderBy='startTime'.
StudyListings ==
    {es \in UNION {[1..n -> StudyEvents] : n \in 0..MaxStudyEvents} :
        \A i \in 1..(Len(es) - 1) : es[i].start <= es[i + 1].start}

HoursInit ==
    /\ h_pc = "list"
    /\ h_events = <<>>
    /\ h_idx = 1
    /\ h_now \in Times
    /\ h_total = 0
    /\ h_seen = <<>>
    /\ h_raised = <<>>

HoursIdle ==
    /\ h_pc = "idle"
    /\ h_events = <<>>
    /\ h_idx = 1
    /\ h_now = 0
    /\ h_total = 0
    /\ h_seen = <<>>
    /\ h_raised = <<>>

\* events_result = service.events().list(timeMin=today_start, timeMax=now)
\* in its try: HttpError, or the events that began by now.
ListStudyEvents ==
    /\ h_pc = "list"
    /\ \/ /\ h_pc' = "returned"
          /\ UNCHANGED h_events
       \/ /\ h_events' \in
                {es \in StudyListings : \A i \in 1..Len(es) : es[i].start <= h_now}
          /\ h_pc' = "check"
    /\ UNCHANGED <<h_idx, h_now, h_total, h_seen, h_raised>>
    /\ UNCHANGED <<shiftVars, deleteVars>>

\* if not events: print(...); return.  total_hours = 0 otherwise.
CheckStudyEvents ==
    /\ h_pc = "check"
    /\ h_pc' = IF h_events = <<>> THEN "returned" ELSE "loop"
    /\ UNCHANGED <<h_events, h_idx, h_now, h_total, h_seen, h_raised>>
    /\ UNCHANGED <<shiftVars, deleteVars>>

\* duration = end_time - start_time
Duration(e) == e.end - e.start

\* Completed counting every event that has begun.
CompletedStarted(e, now) == IF e.start <= now THEN Duration(e) ELSE 0

\* What one event adds to total_hours when the clock reads now.
Completed(e, now) == IF e.end <= now THEN Duration(e) ELSE 0

\* One pass of the loop body.  datetime.now() is read anew in each pass, so
\* the clock may have moved on.  Comparing the naive end of an all-day event
\* with the aware clock raises TypeError.
CountEvent ==
    /\ h_pc = "loop"
    /\ h_idx <= Len(h_events)
    /\ \E now \in Times :
          /\ h_now <= now
          /\ h_now' = now
          /\ IF h_events[h_idx].key = "date"
             THEN /\ h_raised' = <<"TypeError">>
                  /\ h_pc' = "raised"
                  /\ UNCHANGED <<h_total, h_seen, h_idx>>
             ELSE /\ h_total' = h_total + Completed(h_events[h_idx], now)
                  /\ h_seen' = Append(h_seen, now)
                  /\ h_idx' = h_idx + 1
                  /\ h_pc' = IF h_idx = Len(h_events) THEN "print" ELSE "loop"
                  /\ UNCHANGED h_raised
    /\ UNCHANGED h_events
    /\ UNCHANGED <<shiftVars, deleteVars>>

\* print(f"Total studying hours completed today: {total_hours:.2f} hours")
PrintTotal ==
    /\ h_pc = "print"
    /\ h_pc' = "returned"
    /\ UNCHANGED <<h_events, h_idx, h_now, h_total, h_seen, h_raised>>
    /\ UNCHANGED <<shiftVars, deleteVars>>


----------------------------------------------------------------------------
(* The specifications: one script runs, the others stand idle.             *)

Init == ShiftInit /\ DeleteIdle /\ HoursIdle

Next ==
    \/ FindDateStrings
    \/ ParseDates
    \/ EarliestDate
    \/ TargetDate
    \/ TargetDt
    \/ Delta
    \/ ShiftContent
    \/ WriteFile

Spec == Init /\ [][Next]_vars

InitDelete == ShiftIdle /\ DeleteInit /\ HoursIdle

NextDelete ==
    \/ ListEvents
    \/ CheckEvents
    \/ DeleteEvent

SpecDelete == InitDelete /\ [][NextDelete]_vars

InitHours == ShiftIdle /\ DeleteIdle /\ HoursInit

NextHours ==
    \/ ListStudyEvents
    \/ CheckStudyEvents
    \/ CountEvent
    \/ PrintTotal

SpecHours == InitHours /\ [][NextHours]_vars

----------------------------------------------------------------------------
(* What the claims speak of.                                               *)

\* The positions at which re.findall and re.sub find their matches.
RECURSIVE MatchStartsFrom(_, _)
MatchStartsFrom(text, i) ==
    IF i > Len(text) THEN {}
    ELSE IF MatchAt(text, i)
         THEN {i} \cup MatchStartsFrom(text, i + 15)
         ELSE MatchStartsFrom(text, i + 1)

MatchStarts(text) == MatchStartsFrom(text, 1)

\* -td, the delta that shifts back.
NegDelta(td) == TimeDelta(0 - td.days, 0 - td.seconds)

\* The tokens of the input and of the output, in document order.
InTokens == FindAll(original_content)
OutTokens == FindAll(shifted_content[1])

\* The day offset the week type stands for.
WeekDays == IF week_type \in {"B", "b"} THEN 7 ELSE 0

\* The anchor: targetDate plus the week's days, at the time of day of t.
AnchorOf(t, days) ==
    LET d == DtAdd(StrptimeDate(target_date_str), TimeDelta(days, 0)).dt
    IN  DateTime(d.year, d.month, d.day, t.hour, t.minute, t.second)

\* The tokens the calendar has no date or time for.
ImpossibleTokens == {April31, February29, Hour24}

\* C1: once the shift has produced its text, every token A of the document
\* stands replaced by A + delta for the one delta of the run, so for any two
\* tokens shifted(B) - shifted(A) = B - A, and A earlier than B stays so.
C1_ConstantDelta ==
    shifted_content # <<>> =>
        /\ Len(OutTokens) = Len(InTokens)
        /\ \A i \in 1..Len(InTokens) :
              /\ Strptime(OutTokens[i]).ok
              /\ DtAdd(Strptime(InTokens[i]).dt, delta[1]).ok
              /\ Strptime(OutTokens[i]).dt
                    = DtAdd(Strptime(InTokens[i]).dt, delta[1]).dt
        /\ \A i, j \in 1..Len(InTokens) :
              LET a  == Strptime(InTokens[i]).dt
                  b  == Strptime(InTokens[j]).dt
                  sa == Strptime(OutTokens[i]).dt
                  sb == Strptime(OutTokens[j]).dt
              IN  /\ DtSub(sb, sa) = DtSub(b, a)
                  /\ DtLess(a, b) => DtLess(sa, sb)

C1_Witness ==
    /\ pc = "done"
    /\ Len(InTokens) >= 2
    /\ DtLess(Strptime(InTokens[1]).dt, Strptime(InTokens[2]).dt)
    /\ Strptime(InTokens[1]).dt.hour # Strptime(InTokens[2]).dt.hour
    /\ delta[1].days # 0

\* C2: the earliest timestamp of the document is rewritten to the anchor,
\* whose date is targetDate plus weekOffsetDays days and whose time of day
\* is the earliest timestamp's own; delta = anchor - earliest.
C2_EarliestBecomesAnchor ==
    shifted_content # <<>> =>
        \A i \in 1..Len(InTokens) :
            LET t == Strptime(InTokens[i]).dt
            IN  (\A j \in 1..Len(InTokens) :
                    ~DtLess(Strptime(InTokens[j]).dt, t))
                => /\ Strptime(OutTokens[i]).dt = AnchorOf(t, WeekDays)
                   /\ delta[1] = DtSub(AnchorOf(t, WeekDays), t)

C2_Witness ==
    /\ pc = "done"
    /\ Len(InTokens) >= 2
    /\ DtLess(Strptime(InTokens[2]).dt, Strptime(InTokens[1]).dt)
    /\ Strptime(OutTokens[2]).dt
          = AnchorOf(Strptime(InTokens[2]).dt, WeekDays)

\* C3: a document in which nothing matches the pattern ends in the failure
\* of min() on the empty list: no delta is computed, no text produced, no
\* file written.
C3_NoTimestampsFails ==
    (\A i \in 1..Len(original_content) : ~MatchAt(original_content, i)) =>
        /\ pc \in {"findall", "strptime", "min", "raised"}
        /\ pc = "raised" => raised = <<"ValueError", "min">>
        /\ earliest_date = <<>>
        /\ delta = <<>>
        /\ shifted_content = <<>>
        /\ out_file = <<>>

C3_Witness ==
    /\ pc = "raised"
    /\ raised = <<"ValueError", "min">>
    /\ Len(original_content) >= 2
    /\ delta = <<>>
    /\ out_file = <<>>

\* C4: shifting the produced text back by the negated delta gives the
\* original document again, character for character.
C4_RoundTrip ==
    shifted_content # <<>> =>
        LET back == Sub(shifted_content[1], NegDelta(delta[1]))
        IN  back.ok /\ back.text = original_content

C4_Witness ==
    /\ pc = "done"
    /\ Len(InTokens) >= 2
    /\ Len(original_content) > 15 * Len(InTokens)
    /\ shifted_content[1] # original_content
    /\ Sub(shifted_content[1], NegDelta(delta[1])).text = original_content

\* C5: the produced text has the length of the input, carries a token of
\* the same YYYYMMDDTHHMMSS shape wherever the input carries one, and is
\* the input, character for character, everywhere else.
C5_OnlyTokenDigitsChange ==
    shifted_content # <<>> =>
        LET in  == original_content
            out == shifted_content[1]
        IN  /\ Len(out) = Len(in)
            /\ MatchStarts(out) = MatchStarts(in)
            /\ \A i \in 1..Len(in) :
                  IF \E p \in MatchStarts(in) : p <= i /\ i <= p + 14
                  THEN IF \E p \in MatchStarts(in) : i = p + 8
                       THEN out[i] = "T"
                       ELSE IsDigit(out[i])
                  ELSE i <= Len(out) /\ out[i] = in[i]

C5_Witness ==
    /\ pc = "done"
    /\ Len(InTokens) >= 1
    /\ Len(original_content) > 15 * Len(InTokens)
    /\ 1 \notin MatchStarts(original_content)
    /\ shifted_content[1] # original_content

\* C6: a token of the document that matches the pattern but names no
\* calendar date or time of day makes the run fail with the ValueError of
\* strptime, wherever the token stands: before a delta is computed and
\* before any text is produced or written.
C6_ImpossibleDateFails ==
    (\E i \in 1..Len(InTokens) : InTokens[i] \in ImpossibleTokens) =>
        /\ pc \in {"findall", "strptime", "raised"}
        /\ pc = "raised" => raised = <<"ValueError", "strptime">>
        /\ dates = <<>>
        /\ delta = <<>>
        /\ shifted_content = <<>>
        /\ out_file = <<>>

C6_Witness ==
    /\ pc = "raised"
    /\ raised = <<"ValueError", "strptime">>
    /\ Len(InTokens) = 3
    /\ Strptime(InTokens[1]).ok
    /\ Strptime(InTokens[2]).ok
    /\ InTokens[3] \in ImpossibleTokens
    /\ delta = <<>>
    /\ out_file = <<>>

\* C7: for the same document and target date, the delta of week B is the
\* delta of week A plus exactly 7 days, and every token of the week-B
\* output is 7 days later than the same token of the week-A output.
C7_WeekBSevenDaysLater ==
    (delta # <<>> /\ week_type \in {"B", "b"}) =>
        LET e      == earliest_date[1]
            deltaA == DtSub(AnchorOf(e, 0), e)
            outA   == FindAll(Sub(original_content, deltaA).text)
        IN  /\ delta[1] = [days |-> deltaA.days + 7, seconds |-> deltaA.seconds]
            /\ shifted_content # <<>> =>
                  /\ Len(outA) = Len(OutTokens)
                  /\ \A i \in 1..Len(OutTokens) :
                        DtSub(Strptime(OutTokens[i]).dt, Strptime(outA[i]).dt)
                            = [days |-> 7, seconds |-> 0]

C7_Witness ==
    /\ pc = "done"
    /\ week_type \in {"B", "b"}
    /\ Len(OutTokens) >= 2
    /\ delta[1].days # 7

\* C8: after a successful listing a delete is attempted for every listed
\* event, whatever failed for the events before it.
C8_EveryEventAttempted ==
    (d_pc \in {"returned", "raised"} /\ d_events # <<>>) =>
        d_attempted = [i \in 1..Len(d_events) |-> d_events[i].id]

\* C9: the delta is a whole number of days, so every token keeps its hour,
\* minute and second through the shift.
C9_TimeOfDayKept ==
    /\ delta # <<>> => delta[1].seconds = 0
    /\ shifted_content # <<>> =>
          /\ Len(OutTokens) = Len(InTokens)
          /\ \A i \in 1..Len(InTokens) :
                SubSeq(OutTokens[i], 9, 15) = SubSeq(InTokens[i], 9, 15)

C9_Witness ==
    /\ pc = "done"
    /\ Len(InTokens) >= 2
    /\ SubSeq(InTokens[1], 9, 15) # SubSeq(InTokens[2], 9, 15)
    /\ SubSeq(OutTokens[1], 1, 8) # SubSeq(InTokens[1], 1, 8)
    /\ SubSeq(OutTokens[2], 9, 15) = SubSeq(InTokens[2], 9, 15)

\* The durations of the first n events of es that had ended at the clock
\* reading taken for them.
RECURSIVE EndedSum(_, _, _)
EndedSum(es, seen, n) ==
    IF n = 0 THEN 0
    ELSE EndedSum(es, seen, n - 1)
            + (IF es[n].end <= seen[n] THEN es[n].end - es[n].start ELSE 0)

RECURSIVE DurationSum(_, _)
DurationSum(es, n) ==
    IF n = 0 THEN 0 ELSE DurationSum(es, n - 1) + (es[n].end - es[n].start)

\* C10: the total holds the durations of exactly the events whose end was
\* at or before the clock reading taken for them; an event still running
\* adds nothing, and the total never exceeds the durations of all returned
\* events.
C10_CompletedTotal ==
    /\ Len(h_seen) = h_idx - 1
    /\ h_total = EndedSum(h_events, h_seen, h_idx - 1)
    /\ h_total <= DurationSum(h_events, Len(h_events))

C10_Witness ==
    /\ h_pc = "returned"
    /\ Len(h_events) = 2
    /\ Len(h_seen) = 2
    /\ h_events[1].end <= h_seen[1]
    /\ h_events[1].start < h_events[1].end
    /\ h_events[2].start < h_seen[2]
    /\ h_seen[2] < h_events[2].end
    /\ h_total = h_events[1].end - h_events[1].start
=============================================================================
